---- MODULE Spec2Model ----
(***************************************************************************)
(* A model of mastodon_backup.py: the URL resolver (parse_profile_url),    *)
(* the account lookup (get_user_id), the paginated fetcher                 *)
(* (get_all_following) and the orchestrator (main).                        *)
(*                                                                         *)
(* Python strings that the program takes apart (the profile URL, the       *)
(* instance, the username) are sequences of one-character strings.         *)
(***************************************************************************)
EXTENDS Integers, Sequences, FiniteSets, TLC

VARIABLES
    args,             \* the parsed command line: url, verbose, timeout, page
    pc,               \* where main is
    initial_instance, \* main's initial_instance
    initial_username, \* main's initial_username
    initial_user_id,  \* main's initial_user_id
    url,              \* get_all_following's url
    all_following,    \* get_all_following's all_following
    all_followed,     \* main's all_followed: what get_all_following returned
    fetcher,          \* get_all_following: idle, running, returned, raised, blocked
    last_req,         \* the HTTP request issued last
    looked_up,        \* the response to the lookup GET, once it was issued
    n_lookup,         \* number of GETs of the lookup endpoint so far
    n_following,      \* number of GETs of the following collection so far
    n_429,            \* number of 429 responses the fetcher received so far
    slept,            \* seconds spent in time.sleep so far
    served,           \* the non-429 responses to the fetcher's GETs, in order
    stdout,           \* the lines printed so far
    raised,           \* the exception that ended the process, if any
    exit_status       \* the process's exit status, Running until it ends

vars == <<args, pc, initial_instance, initial_username, initial_user_id, url,
          all_following, all_followed, fetcher, last_req, looked_up, n_lookup, n_following, n_429,
          slept, served, stdout, raised, exit_status>>

----------------------------------------------------------------------------
(* Bounds of the model *)

\* longest profile URL, in characters, that SpecParse enumerates
MaxUrlLen == 5
\* longest chain of pages the server serves in one run
MaxPages == 3
\* most accounts in one page
MaxPageLen == 2
\* most 429 responses the server gives in one run
Max429 == 2
\* longest host and longest user name of the profile URLs SpecParse enumerates
MaxNameLen == 2

----------------------------------------------------------------------------
(* Python values *)

\* Python's None where a str is expected; "None" is no character of Alphabet
None == <<"None">>

\* the characters profile URLs are made of: two letters and the delimiters
\* urlsplit gives a meaning to ("]" and ";" are left out)
Alphabet == {"a", "b", ":", "/", "@", "?", "#", "["}

\* str.isalpha() and urllib.parse.scheme_chars, over Alphabet
Letters == {"a", "b"}
scheme_chars == {"a", "b"}

\* all strings over Alphabet of length at most n
RECURSIVE StringsUpTo(_)
StringsUpTo(n) ==
    IF n = 0 THEN {<<>>}
    ELSE LET shorter == StringsUpTo(n - 1)
         IN  shorter \cup {Append(s, c) : s \in {t \in shorter : Len(t) = n - 1}, c \in Alphabet}

\* str.find(c, start): the first index >= start (1-based) of c in s, 0 if none
Find(s, c, start) ==
    LET hits == {k \in start..Len(s) : s[k] = c}
    IN  IF hits = {} THEN 0 ELSE CHOOSE k \in hits : \A j \in hits : k <= j

Contains(s, c) == \E k \in 1..Len(s) : s[k] = c

\* s.strip(c)
strip(s, c) ==
    LET keep == {k \in 1..Len(s) : s[k] # c}
    IN  IF keep = {} THEN <<>>
        ELSE LET lo == CHOOSE k \in keep : \A j \in keep : k <= j
                 hi == CHOOSE k \in keep : \A j \in keep : k >= j
             IN  SubSeq(s, lo, hi)

\* s.split(c)[0]: the first segment taken for the last
split_first(s, c) ==
    IF Contains(s, c) THEN SubSeq(s, 1, Find(s, c, 1) - 1) ELSE s

\* s.split(c)[-1]
split_last(s, c) ==
    LET hits == {k \in 1..Len(s) : s[k] = c}
    IN  IF hits = {} THEN s
        ELSE LET last == CHOOSE k \in hits : \A j \in hits : k >= j
             IN  SubSeq(s, last + 1, Len(s))

\* s.split(c, 1)[0], for a c that occurs in s or not
before_first(s, c) ==
    IF Contains(s, c) THEN SubSeq(s, 1, Find(s, c, 1) - 1) ELSE s

\* urllib.parse._splitnetloc(url, 2): the position where the netloc ends
netloc_end(u) ==
    LET ds == {Find(u, c, 3) : c \in {"/", "?", "#"}} \ {0}
    IN  IF ds = {} THEN Len(u) + 1 ELSE CHOOSE d \in ds : \A e \in ds : d <= e

\* urllib.parse.urlparse(url): raised (ValueError), else scheme, netloc, path
urlparse(u) ==
    LET i == Find(u, ":", 1)
        has_scheme == /\ i > 1
                      /\ u[1] \in Letters
                      /\ \A k \in 1..(i - 1) : u[k] \in scheme_chars
        scheme == IF has_scheme THEN SubSeq(u, 1, i - 1) ELSE <<>>
        rest == IF has_scheme THEN SubSeq(u, i + 1, Len(u)) ELSE u
        has_netloc == Len(rest) >= 2 /\ rest[1] = "/" /\ rest[2] = "/"
        delim == netloc_end(rest)
        netloc == IF has_netloc THEN SubSeq(rest, 3, delim - 1) ELSE <<>>
        rest2 == IF has_netloc THEN SubSeq(rest, delim, Len(rest)) ELSE rest
        path == before_first(before_first(rest2, "#"), "?")
    IN  IF has_netloc /\ (Contains(netloc, "[") # Contains(netloc, "]"))
        THEN [raised |-> TRUE, scheme |-> <<>>, netloc |-> <<>>, path |-> <<>>]
        ELSE [raised |-> FALSE, scheme |-> scheme, netloc |-> netloc, path |-> path]

\* Python's `not s` for a str or None
falsy_str(s) == s = None \/ s = <<>>

\* line 69 with `and` for `or`
missing_part_and(instance, username) == falsy_str(instance) /\ falsy_str(username)

\* the test of line 69: `not instance or not username`
missing_part(instance, username) == falsy_str(instance) \/ falsy_str(username)

\* parse_profile_url(profile_url): <<instance, username>> or <<None, None>>
parse_profile_url(profile_url) ==
    LET parsed_url == urlparse(profile_url)
        instance == parsed_url.netloc
        username == split_last(strip(parsed_url.path, "/"), "@")
    IN  IF parsed_url.raised THEN <<None, None>>
        ELSE IF missing_part(instance, username) THEN <<None, None>>
        ELSE <<instance, username>>

----------------------------------------------------------------------------
(* HTTP: URLs, requests and responses *)

\* an optional integer: Python's None, or a number
Nothing == [some |-> FALSE, v |-> 0]
Some(v) == [some |-> TRUE, v |-> v]

\* url = None (line 150), and the URL of "no request yet"
NoUrl == [kind |-> "none", instance |-> <<>>, who |-> <<>>, limit |-> 0, page |-> 0]

\* f"https://{instance}/api/v1/accounts/lookup?acct={username}" (line 91)
lookup_url(instance, username) ==
    [kind |-> "lookup", instance |-> instance, who |-> username, limit |-> 0, page |-> 0]

\* f"https://{instance}/api/v1/accounts/{user_id}/following?limit={page_size}" (line 122)
following_url(instance, user_id, page_size) ==
    [kind |-> "following", instance |-> instance, who |-> user_id,
     limit |-> page_size, page |-> 1]

\* response.links["next"]["url"] of the response that served page k (line 147):
\* a URL the server chose, which leads to page k + 1
next_url(k) ==
    [kind |-> "next", instance |-> <<>>, who |-> <<>>, limit |-> 0, page |-> k + 1]

NoReq == [url |-> NoUrl, params |-> Nothing, timeout |-> Nothing]

\* requests.get(url, timeout) as written on lines 93 and 128: the second
\* positional parameter of requests.get(url, params=None, **kwargs) is params,
\* so the value goes into the query parameters and the request has no timeout
requests_get(u, timeout) == [url |-> u, params |-> Some(timeout), timeout |-> Nothing]

\* the URL a request asks the server for: requests appends a truthy params
\* value to the query of the URL as one more component (lines 93 and 128)
sent_url(req) ==
    [url   |-> req.url,
     added |-> IF req.params.some /\ req.params.v # 0 THEN req.params ELSE Nothing]

\* the status of a rate-limited response (line 130)
TooManyRequests == 429

\* status codes of the server's final responses (requests follows redirects)
Statuses == {200, 404, TooManyRequests, 503}

\* time.sleep(60) (line 132)
SleepSeconds == 60

\* the 429 test placed after raise_for_status(): it never sees a 429
rate_limited_after_raise(status) == FALSE

\* a retry budget: after one 429 the next 429 is an error like any other
rate_limited_once(status) == status = TooManyRequests /\ n_429 < 1

\* response.status_code == 429 (line 130)
rate_limited(status) == status = TooManyRequests

\* raise_for_status() for the 5xx statuses alone
raise_for_status_5xx(status) == status >= 500 /\ status < 600

\* response.raise_for_status() raises HTTPError (lines 94, 135): 4xx and 5xx
raise_for_status(status) == status >= 400 /\ status < 600

\* what a GET ends in: "response"; "exception" (a RequestException: no
\* connection, or no answer within the request's timeout); or "blocked", when
\* the server never answers and the request carries no timeout
get_outcome(req, resp) ==
    CASE resp.kind = "http" -> "response"
      [] resp.kind = "neterr" -> "exception"
      [] resp.kind = "silent" -> IF req.timeout.some THEN "exception" ELSE "blocked"

----------------------------------------------------------------------------
(* JSON bodies *)

\* an element of a following page: an account object with its `url`
\* (None when the object has no such field), or a value that is no object
Account(u) == [t |-> "object", url |-> u]
NotAnObject == [t |-> "string", url |-> None]
Elements == {Account(<<"u">>), Account(None)}

RECURSIVE SeqsUpTo(_, _)
SeqsUpTo(S, n) ==
    IF n = 0 THEN {<<>>}
    ELSE LET shorter == SeqsUpTo(S, n - 1)
         IN  shorter \cup {Append(s, e) : s \in {t \in shorter : Len(t) = n - 1}, e \in S}

\* bodies of the following endpoint: text that is no JSON, null, 0, a number
\* that is not 0, an object (v: its keys), an array (v: its elements)
Scalar(t) == [t |-> t, v |-> <<>>]
Bodies ==
    {Scalar("invalid"), Scalar("null"), Scalar("zero"), Scalar("number"),
     [t |-> "object", v |-> <<>>], [t |-> "object", v |-> <<NotAnObject>>]}
    \cup {[t |-> "array", v |-> a] : a \in SeqsUpTo(Elements, MaxPageLen)}

\* response.json() raises (a JSONDecodeError: a RequestException and a ValueError)
json_raises(body) == body.t = "invalid"

\* `data is None` for `not data`: an empty array does not stop the loop
falsy_none_only(data) == data.t = "null"

\* `not data` (line 139)
falsy(data) == data.t \in {"null", "zero"} \/ (data.t \in {"array", "object"} /\ data.v = <<>>)

\* all_following.extend(data) raises TypeError: data is not iterable (line 142)
extend_raises(data) == data.t = "number"

\* all_following.extend(data): the elements of a list, the keys of a dict
extend(list, data) == list \o data.v

\* bodies of the lookup endpoint; id: the value of the object's `id` field,
\* None when the object has none
IdOf(t, id) == [t |-> t, id |-> id]
LookupBodies ==
    {IdOf("invalid", None), IdOf("null", None), IdOf("array", None), IdOf("number", None),
     IdOf("object", None), IdOf("object", <<>>), IdOf("object", <<"4", "2">>)}

\* bodies that come with a 4xx or 5xx status
ErrorBodies == {Scalar("invalid"), [t |-> "object", v |-> <<NotAnObject>>]}

\* what the server does with a GET: no connection, no answer ever, or an
\* HTTP response with a status and a Link header that has rel="next" or not
Responses ==
    {[kind |-> "neterr", status |-> 0, next |-> FALSE],
     [kind |-> "silent", status |-> 0, next |-> FALSE]}
    \cup {[kind |-> "http", status |-> st, next |-> nx] : st \in Statuses, nx \in BOOLEAN}

\* the lookup endpoint's responses: its Link header is never read
LookupResponses == {r \in Responses : ~r.next}

\* a response with its body
Served(resp, body) ==
    [kind |-> resp.kind, status |-> resp.status, next |-> resp.next, body |-> body]

----------------------------------------------------------------------------
(* The functions of the program *)

NoExc == [exc |-> "none", line |-> 0]
Exc(name, line) == [exc |-> name, line |-> line]

\* the CLI defaults of --timeout and --page (lines 39, 47)
DefaultTimeout == 5
DefaultPage == 80

\* get_user_id(instance, username, timeout), given what the server does:
\* ctl "return" with the value returned, "raise" with the exception that
\* leaves the function, or "blocked" when requests.get never comes back
get_user_id(instance, username, timeout, resp, body) ==
    LET req == requests_get(lookup_url(instance, username), timeout)
        out == get_outcome(req, resp)
    IN  CASE out = "blocked" ->
               [ctl |-> "blocked", value |-> None, exc |-> NoExc]
          [] out = "exception" ->
               [ctl |-> "return", value |-> None, exc |-> NoExc]
          [] out = "response" /\ raise_for_status(resp.status) ->
               [ctl |-> "return", value |-> None, exc |-> NoExc]
          [] out = "response" /\ ~raise_for_status(resp.status) /\ json_raises(body) ->
               [ctl |-> "return", value |-> None, exc |-> NoExc]
          [] OTHER ->
               IF body.t # "object"
               THEN [ctl |-> "raise", value |-> None, exc |-> Exc("AttributeError", 95)]
               ELSE [ctl |-> "return", value |-> body.id, exc |-> NoExc]

\* one pass through the body of `while url:` in get_all_following (lines
\* 127-161), given what the server does. ctl: "blocked"; "sleep" (429: sleep,
\* then the same url again); "loop" (go on with url); "return" (the function
\* returns value, by `return []`, by `break` or because url is None);
\* "raise" (an exception no except clause catches)
loop_body(acc, u, timeout, resp, body) ==
    LET req == requests_get(u, timeout)
        out == get_outcome(req, resp)
        same == [ctl |-> "loop", acc |-> acc, url |-> u, value |-> <<>>, exc |-> NoExc]
    IN  CASE out = "blocked" -> [same EXCEPT !.ctl = "blocked"]
          [] out = "exception" -> [same EXCEPT !.ctl = "return"]
          [] out = "response" /\ rate_limited(resp.status) -> [same EXCEPT !.ctl = "sleep"]
          [] out = "response" /\ ~rate_limited(resp.status)
                /\ raise_for_status(resp.status) -> [same EXCEPT !.ctl = "return"]
          [] OTHER ->
               IF json_raises(body) THEN [same EXCEPT !.ctl = "return"]
               ELSE IF falsy(body) THEN [same EXCEPT !.ctl = "return", !.value = acc]
               ELSE IF extend_raises(body)
                    THEN [same EXCEPT !.ctl = "raise", !.exc = Exc("TypeError", 142)]
               ELSE LET grown == extend(acc, body)
                    IN  IF resp.next
                        THEN [same EXCEPT !.acc = grown, !.url = next_url(u.page)]
                        ELSE [same EXCEPT !.ctl = "return", !.acc = grown,
                                          !.url = NoUrl, !.value = grown]

\* logger.isEnabledFor(DEBUG), after main's logging.basicConfig (lines 171-174)
debug_enabled(verbose) == verbose

\* the loop of get_all_following against a chain of responses, from the i-th
\* on: each pass takes the next response of the chain
RECURSIVE fetch_loop(_, _, _, _, _)
fetch_loop(acc, u, timeout, chain, i) ==
    IF i > Len(chain)
    THEN [ctl |-> "unanswered", value |-> <<>>, exc |-> NoExc, gets |-> i]
    ELSE LET s == chain[i]
             r == loop_body(acc, u, timeout,
                            [kind |-> s.kind, status |-> s.status, next |-> s.next], s.body)
         IN  CASE r.ctl \in {"loop", "sleep"} -> fetch_loop(r.acc, r.url, timeout, chain, i + 1)
               [] r.ctl = "return" ->
                    [ctl |-> "returned", value |-> r.value, exc |-> NoExc, gets |-> i]
               [] r.ctl = "raise" ->
                    [ctl |-> "raised", value |-> <<>>, exc |-> r.exc, gets |-> i]
               [] r.ctl = "blocked" ->
                    [ctl |-> "blocked", value |-> <<>>, exc |-> NoExc, gets |-> i]

\* get_all_following(instance, user_id, timeout, page_size) as a function of
\* the log level and of the chain of responses the server gives: how the call
\* ends (returned, raised, blocked; unanswered when the chain is too short),
\* the value returned and the number of GETs issued
get_all_following(instance, user_id, timeout, page_size, verbose, chain) ==
    IF falsy_str(user_id)
    THEN [ctl |-> "returned", value |-> <<>>, exc |-> NoExc, gets |-> 0]
    ELSE IF debug_enabled(verbose)
    THEN [ctl |-> "raised", value |-> <<>>, exc |-> Exc("TypeError", 124), gets |-> 0]
    ELSE fetch_loop(<<>>, following_url(instance, user_id, page_size), timeout, chain, 1)

\* the lines main prints
Summary(n, u) == [summary |-> TRUE, n |-> n, text |-> u]
Line(text) == [summary |-> FALSE, n |-> 0, text |-> text]

\* followed.get("url") raises AttributeError: followed is no dict (line 205)
get_raises(followed) == followed.t # "object"

\* the lines the loop of lines 204-206 prints for the accounts from i on: it
\* stops at the first element that has no .get
RECURSIVE printed(_, _)
printed(followed, i) ==
    IF i > Len(followed) \/ get_raises(followed[i]) THEN <<>>
    ELSE <<Line(followed[i].url)>> \o printed(followed, i + 1)

----------------------------------------------------------------------------
(* The run of main *)

\* profile URLs of the runs: a://a/@b, //a (no path), /@a (no host) and
\* //[/a (urlparse raises)
MainUrls ==
    {<<"a", ":", "/", "/", "a", "/", "@", "b">>,
     <<"/", "/", "a">>,
     <<"/", "@", "a">>,
     <<"/", "/", "[", "/", "a">>}

Timeouts == {0, DefaultTimeout}

\* the state when main starts, for a set of command lines
InitWith(lines) ==
    /\ args \in lines
    /\ pc = "resolve"
    /\ initial_instance = None
    /\ initial_username = None
    /\ initial_user_id = None
    /\ url = NoUrl
    /\ all_following = <<>>
    /\ all_followed = <<>>
    /\ fetcher = "idle"
    /\ last_req = NoReq
    /\ looked_up = <<>>
    /\ n_lookup = 0
    /\ n_following = 0
    /\ n_429 = 0
    /\ slept = 0
    /\ served = <<>>
    /\ stdout = <<>>
    /\ raised = NoExc
    /\ exit_status = Nothing

Init ==
    InitWith([url : MainUrls, verbose : BOOLEAN, timeout : Timeouts, page : {DefaultPage}])

\* sys.exit(1), and the end of the process by an uncaught exception
Exit1(e) ==
    /\ pc' = "exit"
    /\ raised' = e
    /\ exit_status' = Some(1)

\* main without the test of line 184
no_profile_unchecked(instance, username) == FALSE

\* the test of line 184: `not initial_instance or not initial_username`
no_profile(instance, username) == falsy_str(instance) \/ falsy_str(username)

\* main, lines 183-186: resolve the profile URL, exit 1 if that fails
Resolve ==
    /\ pc = "resolve"
    /\ LET r == parse_profile_url(args.url)
       IN  /\ initial_instance' = r[1]
           /\ initial_username' = r[2]
           /\ IF no_profile(r[1], r[2])
              THEN Exit1(NoExc)
              ELSE pc' = "lookup" /\ UNCHANGED <<raised, exit_status>>
    /\ UNCHANGED <<args, initial_user_id, url, all_following, all_followed, fetcher,
                   last_req, looked_up, n_lookup, n_following, n_429, slept, served, stdout>>

\* main going on to the fetcher whatever the lookup returned
no_user_id_unchecked(user_id) == FALSE

\* if not initial_user_id (line 190)
no_user_id(user_id) == falsy_str(user_id)

\* main, lines 189-194: look the account up, exit 1 without a user id
Lookup ==
    /\ pc = "lookup"
    /\ \E resp \in LookupResponses, body \in LookupBodies :
         LET r == get_user_id(initial_instance, initial_username, args.timeout, resp, body)
         IN  /\ last_req' = requests_get(lookup_url(initial_instance, initial_username),
                                         args.timeout)
             /\ looked_up' = <<Served(resp, body)>>
             /\ n_lookup' = n_lookup + 1
             /\ CASE r.ctl = "blocked" ->
                       /\ pc' = "blocked"
                       /\ UNCHANGED <<initial_user_id, raised, exit_status>>
                  [] r.ctl = "raise" ->
                       /\ Exit1(r.exc)
                       /\ UNCHANGED initial_user_id
                  [] r.ctl = "return" ->
                       /\ initial_user_id' = r.value
                       /\ IF no_user_id(r.value)
                          THEN Exit1(NoExc)
                          ELSE pc' = "fetch" /\ UNCHANGED <<raised, exit_status>>
    /\ UNCHANGED <<args, initial_instance, initial_username, url, all_following,
                   all_followed, fetcher, n_following, n_429, slept, served, stdout>>

\* get_all_following returns value to main (line 198)
Return(value) ==
    /\ all_followed' = value
    /\ fetcher' = "returned"
    /\ pc' = "output"
    /\ UNCHANGED <<raised, exit_status>>

\* main, line 198, and get_all_following, lines 117-124: the call, up to the loop
FetchEnter ==
    /\ pc = "fetch"
    /\ IF falsy_str(initial_user_id)
       THEN Return(<<>>) /\ UNCHANGED url
       ELSE IF debug_enabled(args.verbose)
       THEN /\ Exit1(Exc("TypeError", 124))
            /\ fetcher' = "raised"
            /\ UNCHANGED <<all_followed, url>>
       ELSE /\ url' = following_url(initial_instance, initial_user_id, args.page)
            /\ fetcher' = "running"
            /\ pc' = "loop"
            /\ UNCHANGED <<all_followed, raised, exit_status>>
    /\ all_following' = <<>>
    /\ UNCHANGED <<args, initial_instance, initial_username, initial_user_id, last_req,
                   looked_up, n_lookup, n_following, n_429, slept, served, stdout>>

\* the server's side of one GET of the following collection: at most Max429
\* answers 429 in a run, and a chain of at most MaxPages pages
ServerMay(resp, body) ==
    /\ resp.kind = "http" /\ resp.status = TooManyRequests => n_429 < Max429
    /\ resp.next => Len(served) + 1 < MaxPages
    /\ resp.kind = "http" /\ resp.status >= 400 => body \in ErrorBodies
    /\ resp.kind # "http" => body = Scalar("invalid")

\* get_all_following, lines 126-164: one pass of the loop
FetchGet ==
    /\ pc = "loop"
    /\ \E resp \in Responses, body \in Bodies :
         /\ ServerMay(resp, body)
         /\ LET r == loop_body(all_following, url, args.timeout, resp, body)
                is429 == resp.kind = "http" /\ resp.status = TooManyRequests
            IN  /\ last_req' = requests_get(url, args.timeout)
                /\ n_following' = n_following + 1
                /\ n_429' = IF is429 THEN n_429 + 1 ELSE n_429
                /\ served' = IF is429 THEN served ELSE Append(served, Served(resp, body))
                /\ all_following' = r.acc
                /\ url' = r.url
                /\ CASE r.ctl = "blocked" ->
                          /\ pc' = "blocked"
                          /\ fetcher' = "blocked"
                          /\ UNCHANGED <<all_followed, raised, exit_status>>
                     [] r.ctl = "sleep" ->
                          /\ pc' = "sleep"
                          /\ UNCHANGED <<all_followed, fetcher, raised, exit_status>>
                     [] r.ctl = "loop" ->
                          /\ pc' = "loop"
                          /\ UNCHANGED <<all_followed, fetcher, raised, exit_status>>
                     [] r.ctl = "return" -> Return(r.value)
                     [] r.ctl = "raise" ->
                          /\ Exit1(r.exc)
                          /\ fetcher' = "raised"
                          /\ UNCHANGED all_followed
    /\ UNCHANGED <<args, initial_instance, initial_username, initial_user_id, looked_up,
                   n_lookup, slept, stdout>>

\* the retry without the sleep
time_sleep_skipped(s) == s

\* time.sleep(60) (line 132): the seconds slept so far, after it
time_sleep(s) == s + SleepSeconds

\* get_all_following, lines 132-133: time.sleep(60), then the loop again
Sleep ==
    /\ pc = "sleep"
    /\ slept' = time_sleep(slept)
    /\ pc' = "loop"
    /\ UNCHANGED <<args, initial_instance, initial_username, initial_user_id, url,
                   all_following, all_followed, fetcher, last_req, looked_up, n_lookup, n_following,
                   n_429, served, stdout, raised, exit_status>>

\* main, lines 202-206: the summary line, a line per account; the process
\* ends with status 0, or by the AttributeError of line 205
Output ==
    /\ pc = "output"
    /\ LET lines == printed(all_followed, 1)
       IN  /\ stdout' = <<Summary(Len(all_followed), args.url)>> \o lines
           /\ pc' = "exit"
           /\ IF Len(lines) < Len(all_followed)
              THEN raised' = Exc("AttributeError", 205) /\ exit_status' = Some(1)
              ELSE raised' = NoExc /\ exit_status' = Some(0)
    /\ UNCHANGED <<args, initial_instance, initial_username, initial_user_id, url,
                   all_following, all_followed, fetcher, last_req, looked_up, n_lookup, n_following,
                   n_429, slept, served>>

Next == Resolve \/ Lookup \/ FetchEnter \/ FetchGet \/ Sleep \/ Output

Spec == Init /\ [][Next]_vars

----------------------------------------------------------------------------
(* The resolver alone, over all short strings and all short profile URLs *)

\* host names and user names: the non-empty strings of letters
Names == {n \in SeqsUpTo(Letters, MaxNameLen) : n # <<>>}

\* https://{host}/@{user}; the scheme is a string of letters, like https
ProfileUrl(host, user) == <<"a", "b", ":", "/", "/">> \o host \o <<"/", "@">> \o user

ParseUrls == StringsUpTo(MaxUrlLen) \cup {ProfileUrl(h, u) : h \in Names, u \in Names}

InitParse ==
    InitWith([url : ParseUrls, verbose : {FALSE}, timeout : {DefaultTimeout},
              page : {DefaultPage}])

NextParse == Resolve

SpecParse == InitParse /\ [][NextParse]_vars

----------------------------------------------------------------------------
(* Properties *)

\* the run is over: the process has exited, or hangs in a GET for ever
Ended == pc \in {"exit", "blocked"}

\* the resolver failed; the lookup was made and gave no usable id
ResolverFailed == pc # "resolve" /\ (initial_instance = None \/ initial_username = None)
LookupDone == n_lookup = 1 /\ pc # "blocked"
LookupFailed == n_lookup = 1 /\ (initial_user_id = None \/ initial_user_id = <<>>)
LookupSucceeded == n_lookup = 1 /\ initial_user_id # None /\ initial_user_id # <<>>

\* get_all_following was called and the call is over
FetchOver == fetcher \in {"returned", "raised", "blocked"}

\* a 2xx response with a JSON array as its body
IsArrayPage(s) == s.kind = "http" /\ s.status >= 200 /\ s.status < 300 /\ s.body.t = "array"

\* a GET that ended in a 4xx/5xx status other than 429, or in a network error
IsFailure(s) ==
    \/ s.kind = "neterr"
    \/ s.kind = "http" /\ s.status >= 400 /\ s.status < 600 /\ s.status # 429

\* the contents of the pages from the i-th on, one after the other
RECURSIVE Concat(_, _)
Concat(pages, i) == IF i > Len(pages) THEN <<>> ELSE pages[i].body.v \o Concat(pages, i + 1)

\* C1: when every response of the following collection is a 2xx with a JSON
\* array body, a call of get_all_following returns, and what it returns is
\* the contents of the pages served, concatenated in the order served, with
\* nothing dropped, reordered or deduplicated.
C1_ReturnsConcatenation ==
    (pc \notin {"resolve", "lookup", "fetch"} /\ LookupSucceeded /\ fetcher # "running"
        /\ n_429 = 0 /\ \A i \in 1..Len(served) : IsArrayPage(served[i]))
    => (fetcher = "returned" /\ all_followed = Concat(served, 1))

\* C2: once a GET of the following collection has ended in a non-429 failure
\* status or a network error, that GET is the last one, the fetcher has
\* returned, and it has returned the empty sequence.
C2_AbortOnError ==
    \A i \in 1..Len(served) :
        IsFailure(served[i]) =>
            /\ i = Len(served)
            /\ n_following = Len(served) + n_429
            /\ fetcher = "returned"
            /\ all_followed = <<>>
            /\ pc \in {"output", "exit"}

\* C2 witness: the second page fails after a first page was accumulated
C2_Witness ==
    /\ Len(served) = 2
    /\ IsArrayPage(served[1]) /\ served[1].body.v # <<>>
    /\ served[2].kind = "http" /\ served[2].status = 404
    /\ all_following # <<>>
    /\ fetcher = "returned" /\ all_followed = <<>>

\* C3: a call of get_all_following that met 429 responses ends the way the
\* call ends against the same chain of responses without the 429s: the same
\* way out, the same sequence returned, one GET for each response of the chain.
C3_RetryTransparent ==
    FetchOver =>
        LET ref == get_all_following(initial_instance, initial_user_id, args.timeout,
                                     args.page, args.verbose, served)
        IN  /\ ref.ctl = fetcher
            /\ ref.ctl = "returned" => ref.value = all_followed
            /\ ref.ctl = "raised" => ref.exc = raised
            /\ ref.gets = Len(served)
            /\ n_following = Len(served) + n_429

\* C3 witness: a call that was rate limited and returned two pages of accounts
C3_Witness ==
    /\ fetcher = "returned" /\ n_429 > 0 /\ slept > 0
    /\ Len(served) = 2 /\ Len(all_followed) > Len(served[1].body.v)
    /\ served[1].body.v # <<>>

\* C4: every GET is issued with the caller's timeout as its request timeout,
\* and no run hangs in a GET.
C4_TimeoutOnEveryGet ==
    /\ last_req # NoReq => last_req.timeout = Some(args.timeout)
    /\ pc # "blocked"

\* C5: a run ends with status 1 when the resolver or the lookup failed, and
\* with status 0 in every other case.
C5_ExitStatus ==
    pc = "exit" =>
        exit_status = IF ResolverFailed \/ LookupFailed THEN Some(1) ELSE Some(0)

\* C6: get_user_id returns the `id` of a 2xx response whose body is a JSON
\* object with an `id`, returns None for every other outcome of the GET, and
\* never raises; without an id main exits with status 1.
C6_LookupNeverRaises ==
    LookupDone =>
        LET r == looked_up[1]
            has_id == /\ r.kind = "http" /\ r.status >= 200 /\ r.status < 300
                      /\ r.body.t = "object" /\ r.body.id # None
        IN  /\ raised # Exc("AttributeError", 95)
            /\ initial_user_id = IF has_id THEN r.body.id ELSE None
            /\ initial_user_id = None => pc = "exit" /\ exit_status = Some(1)

\* the line main prints for each account of a sequence
UrlLines(accounts) == [i \in 1..Len(accounts) |-> Line(accounts[i].url)]

\* C7: when the resolver and the lookup succeeded, the run prints the summary
\* line with the number of fetched accounts and then one line for each of
\* them, its url (None without one), in fetch order.
C7_StdoutIsSummaryAndUrls ==
    (pc = "exit" /\ ~ResolverFailed /\ LookupSucceeded) =>
        /\ fetcher = "returned"
        /\ stdout = <<Summary(Len(all_followed), args.url)>> \o UrlLines(all_followed)

\* C8: a request has been issued only if the resolver returned an instance
\* and a username that are both non-empty strings, and the request goes to
\* that instance; when the resolver fails the run exits with no request.
C8_NoRequestWithoutProfile ==
    /\ (last_req # NoReq \/ n_lookup + n_following > 0) =>
          /\ initial_instance \notin {None, <<>>}
          /\ initial_username \notin {None, <<>>}
          /\ last_req.url.kind \in {"lookup", "following"} =>
                last_req.url.instance = initial_instance
    /\ ResolverFailed =>
          /\ pc = "exit" /\ exit_status = Some(1)
          /\ last_req = NoReq /\ n_lookup + n_following = 0

\* C8 witness: a URL with a host and no username ended the run at the
\* resolver, with no request issued
C8_Witness ==
    /\ urlparse(args.url).netloc # <<>>
    /\ ResolverFailed
    /\ pc = "exit" /\ exit_status = Some(1)
    /\ last_req = NoReq /\ n_lookup + n_following = 0

\* C9: for a profile URL https://{host}/@{user}, with host and user strings
\* of letters, the resolver returns exactly (host, user).
C9_ResolvesHostAndUser ==
    \A h \in Names, u \in Names :
        (pc # "resolve" /\ args.url = ProfileUrl(h, u)) =>
            /\ initial_instance = h
            /\ initial_username = u
            /\ pc = "lookup"

\* C9 witness: a profile URL whose host and user differ was resolved
C9_Witness ==
    /\ pc = "lookup"
    /\ args.url = ProfileUrl(<<"a", "b">>, <<"b">>)
    /\ initial_instance = <<"a", "b">> /\ initial_username = <<"b">>

\* C10: the resolver returns (None, None) for every input without a host,
\* without a username, or that urlparse rejects; it returns both fields or
\* neither, both non-empty when set; it never raises.
C10_InvalidUrl ==
    pc # "resolve" =>
        LET p == urlparse(args.url)
            user == split_last(strip(p.path, "/"), "@")
            invalid == p.raised \/ p.netloc = <<>> \/ user = <<>>
        IN  /\ invalid => initial_instance = None /\ initial_username = None /\ pc = "exit"
            /\ ~invalid => initial_instance = p.netloc /\ initial_username = user
            /\ (initial_instance = None) = (initial_username = None)
            /\ initial_instance # <<>> /\ initial_username # <<>>
            /\ raised = NoExc

\* C10 witness: an input with a host and no username was rejected
C10_Witness ==
    /\ pc = "exit"
    /\ ~urlparse(args.url).raised
    /\ urlparse(args.url).netloc # <<>>
    /\ initial_instance = None /\ initial_username = None

\* C11: a 429 response to a following GET leaves url and all_following as
\* they are, whatever its body and Link header, and is followed by one sleep
\* of 60 seconds and then by a GET of the same URL; the time slept grows in
\* no other step.
C11_SleepThenRetry ==
    [][ /\ n_429' = n_429 + 1 =>
              /\ pc = "loop" /\ pc' = "sleep"
              /\ last_req'.url = url
              /\ url' = url /\ all_following' = all_following
              /\ fetcher' = "running" /\ slept' = slept /\ served' = served
        /\ pc = "sleep" =>
              /\ pc' = "loop" /\ slept' = slept + 60
              /\ last_req.url = url /\ url' = url
              /\ all_following' = all_following /\ n_following' = n_following
        /\ pc = "loop" => n_following' = n_following + 1 /\ last_req'.url = url
        /\ slept' # slept => pc = "sleep" /\ slept = 60 * (n_429 - 1)
      ]_vars

\* C11 witness: the GET of the second page was answered 429, the fetcher
\* slept 60 seconds and is about to ask for the same page again
C11_Witness ==
    /\ pc = "loop" /\ n_429 = 1 /\ slept = 60
    /\ Len(served) = 1 /\ url = next_url(1) /\ last_req.url = url
    /\ all_following # <<>> /\ n_following = 2

\* a 2xx response whose body is the empty JSON array
IsEmptyPage(s) == IsArrayPage(s) /\ s.body.v = <<>>

\* the contents of the first n pages, one after the other
RECURSIVE ConcatFirst(_, _)
ConcatFirst(pages, n) ==
    IF n = 0 THEN <<>> ELSE ConcatFirst(pages, n - 1) \o pages[n].body.v

\* C12: a 2xx response with an empty array, with a next link or without, is
\* the last GET of the call: the fetcher has returned, and has returned the
\* accounts of the pages before it.
C12_EmptyPageEndsFetch ==
    \A i \in 1..Len(served) :
        IsEmptyPage(served[i]) =>
            /\ i = Len(served)
            /\ n_following = Len(served) + n_429
            /\ fetcher = "returned"
            /\ all_followed = ConcatFirst(served, i - 1)
            /\ pc \in {"output", "exit"}

\* C12 witness: an empty page that carries a next link ended the fetch after
\* a page of accounts
C12_Witness ==
    /\ Len(served) = 2
    /\ IsEmptyPage(served[2]) /\ served[2].next
    /\ fetcher = "returned" /\ all_followed # <<>>
    /\ all_followed = served[1].body.v

\* a 2xx response whose body is no JSON array: no JSON at all, or JSON of
\* another type
IsNotArrayPage(s) ==
    s.kind = "http" /\ s.status >= 200 /\ s.status < 300 /\ s.body.t # "array"

\* C13: a 2xx response whose body is no JSON array is the last GET of the
\* call, and the fetcher has returned the empty sequence.
C13_AbortOnNonArray ==
    \A i \in 1..Len(served) :
        IsNotArrayPage(served[i]) =>
            /\ i = Len(served)
            /\ fetcher = "returned"
            /\ all_followed = <<>>

\* a call of get_all_following with the run's arguments, at log level DEBUG
\* (verbose) or INFO, against the responses the server gave in the run
FetchWith(verbose) ==
    get_all_following(initial_instance, initial_user_id, args.timeout, args.page,
                      verbose, served)

\* what main prints and how it exits when get_all_following ends as r
\* (lines 198-206): the lines of stdout and the exit status
MainAfter(r) ==
    IF r.ctl = "returned"
    THEN [stdout |-> <<Summary(Len(r.value), args.url)>> \o printed(r.value, 1),
          exit |-> IF Len(printed(r.value, 1)) < Len(r.value) THEN 1 ELSE 0]
    ELSE [stdout |-> <<>>, exit |-> 1]

\* C14: with the same arguments otherwise and the same responses of the
\* server, the run with --verbose and the run without it issue the same GETs,
\* print the same lines and exit with the same status: both are what the run
\* at hand did.
C14_VerboseOnlyLogLevel ==
    (pc = "exit" /\ fetcher \in {"returned", "raised"}) =>
        \A v \in BOOLEAN :
            /\ FetchWith(v).gets = n_following - n_429
            /\ MainAfter(FetchWith(v)).stdout = stdout
            /\ Some(MainAfter(FetchWith(v)).exit) = exit_status

\* C15: a call of get_all_following does not hang in a GET and does not end
\* by an exception: against a finite chain with finitely many 429s it ends by
\* returning, after one GET for each page and one for each 429.
C15_FetchReturns ==
    /\ fetcher \notin {"blocked", "raised"}
    /\ fetcher = "returned" /\ initial_user_id \notin {None, <<>>} =>
          /\ n_following = Len(served) + n_429
          /\ n_following >= 1

\* C16: a 429 response, the first or any later one in a row, never ends the
\* call: the fetcher stays in its loop with the same URL and retries after
\* the sleep; the call ends only in a step whose response is not a 429.
C16_NoRetryCeiling ==
    [][ /\ n_429' = n_429 + 1 =>
              /\ fetcher' = "running" /\ pc' = "sleep"
              /\ url' = url /\ url' # NoUrl
              /\ all_followed' = all_followed
        /\ pc = "sleep" => pc' = "loop" /\ fetcher' = "running" /\ url' = url
        /\ (fetcher = "running" /\ fetcher' # "running") =>
              n_429' = n_429 /\ Len(served') = Len(served) + 1
      ]_vars

\* C16 witness: every GET so far, Max429 in a row, was answered 429, and the
\* fetcher is about to ask for the same URL once more
C16_Witness ==
    /\ n_429 = Max429 /\ n_following = Max429 /\ served = <<>>
    /\ pc = "loop" /\ fetcher = "running"
    /\ url = following_url(initial_instance, initial_user_id, args.page)
    /\ last_req.url = url

\* C17: the URL every GET asks for is the one the program built or was given,
\* with nothing added to its query: the lookup URL for the lookup, the
\* following URL with the page size for the first following GET, and the
\* next link of an earlier response for every later one.
C17_UrlAsNamed ==
    last_req # NoReq =>
        /\ sent_url(last_req).added = Nothing
        /\ n_following = 0 =>
              last_req.url = lookup_url(initial_instance, initial_username)
        /\ (n_following > 0 /\ served = <<>>) =>
              last_req.url = following_url(initial_instance, initial_user_id, args.page)
        /\ n_following > 0 =>
              \/ last_req.url = following_url(initial_instance, initial_user_id, args.page)
              \/ \E i \in 1..Len(served) :
                     /\ served[i].next
                     /\ last_req.url = next_url(i)

\* C18: a run goes resolve, lookup, fetch, output: the lookup is requested at
\* most once, only after the resolver succeeded, and not again whatever its
\* status; the following endpoint is requested, and the fetcher entered, only
\* after the lookup returned an id; standard output stays empty until the
\* fetcher has returned.
C18_StageOrder ==
    /\ n_lookup <= 1
    /\ n_lookup = 0 <=> pc \in {"resolve", "lookup"} \/ ResolverFailed
    /\ n_lookup = 1 => Len(looked_up) = 1 /\ ~ResolverFailed
    /\ pc = "lookup" => n_lookup = 0 /\ n_following = 0 /\ fetcher = "idle"
    /\ (n_lookup = 1 /\ looked_up[1].kind = "http" /\ looked_up[1].status # 200) =>
          pc = "exit" /\ n_following = 0 /\ fetcher = "idle" /\ stdout = <<>>
    /\ (n_following > 0 \/ fetcher # "idle" \/ pc \in {"fetch", "loop", "sleep", "output"}) =>
          /\ LookupSucceeded
          /\ looked_up[1].status = 200 /\ looked_up[1].body.id = initial_user_id
    /\ stdout # <<>> => fetcher = "returned" /\ pc = "exit"
    /\ pc = "output" => fetcher = "returned" /\ stdout = <<>>

\* C18 witness: a run through all four stages, with a retried page
C18_Witness ==
    /\ pc = "exit" /\ stdout # <<>> /\ fetcher = "returned"
    /\ n_lookup = 1 /\ n_following = 3 /\ n_429 = 1 /\ Len(served) = 2

====
